---- MODULE Spec2Model ----
(***************************************************************************)
(* Model of nmt/model.py: construction of BaseModel / Model (embeddings,   *)
(* the four encoder-discriminator-decoder passes of build_graph, the loss  *)
(* assembly, the parameter partition, the learning-rate scheme checks and  *)
(* the two optimizer updates) and the session wrappers train() and eval(). *)
(*                                                                         *)
(* A variable name is the sequence of its variable-scope components.       *)
(* A parameter value is abstracted to its version: the number of optimizer *)
(* updates applied to it.  A loss is the set of its summands.              *)
(***************************************************************************)
EXTENDS Integers, Sequences, FiniteSets, TLC

\* Bound on the number of train()/eval() calls issued on one model object.
MaxCalls == 3

-----------------------------------------------------------------------------
\* Inputs of the constructor

Modes == {"TRAIN", "EVAL", "INFER"}

\* The class that is instantiated: BaseModel itself (hooks are the `pass`
\* bodies), Model (the hooks of this file), or a subclass implementing both
\* hooks as their docstrings require.
Classes == {"BaseModel", "Model", "Subclass"}

EncoderTypes == {"uni", "bi", "gnmt"}
WarmupSchemes == {"t2t", "linear"}
DecaySchemes == {"", "luong5", "luong10", "luong234", "exp"}
\* scope argument of __init__: None or a scope name
Scopes == {"None", "s"}

HParams == [encoder_type : EncoderTypes, attention : BOOLEAN,
            warmup_scheme : WarmupSchemes, decay_scheme : DecaySchemes]

-----------------------------------------------------------------------------
\* The four passes and their iterators

Passes == {"s2s", "t2t", "s2t", "t2s"}

\* variable scope ("auto" / "cross") in which build_graph builds the pass
GroupOf(p) == IF p \in {"s2s", "t2t"} THEN "auto" ELSE "cross"

\* language whose embedding table build_graph passes to _build_encoder
EncoderLang(p) == IF p \in {"s2s", "s2t"} THEN "src" ELSE "tgt"

\* language whose embedding table / output layer build_graph passes to
\* _build_decoder
DecoderLang(p) == IF p \in {"s2s", "t2s"} THEN "src" ELSE "tgt"

\* variant: the label is the language the pass decodes into
D_labels_ByTarget(p) == IF DecoderLang(p) = "src" THEN 0 ELSE 1

\* D_labels_<pass>: tf.zeros_like / tf.ones_like of the pass's source
D_labels(p) == IF p \in {"s2s", "s2t"} THEN 0 ELSE 1

-----------------------------------------------------------------------------
\* Variable names

\* `scope or default`
ScopeOr(sc, default) == IF sc = "None" THEN default ELSE sc

\* variable scope stack inside build_graph for a group of passes
GroupPath(sc, g) == <<ScopeOr(sc, "dynamic_seq2seq"), ScopeOr(sc, g)>>

EmbeddingVar(lang) == <<"embeddings", "embedding_" \o lang>>

ProjectionVar(sc, lang) ==
  <<ScopeOr(sc, "build_network"), "decoder", "output_projection",
    "output_projection_" \o lang, "kernel">>

EncoderVar(sc, g) == GroupPath(sc, g) \o <<"encoder", "rnn", "kernel">>

DecoderVar(sc, g) == GroupPath(sc, g) \o <<"decoder", "rnn", "kernel">>

DenseLayers == {"dense1_D", "dense2_D", "dense_last_D"}

\* variables tf.layers.dense(name=d) gets under the AUTO_REUSE scope
\* "discriminator" opened inside the current scope stack
DiscriminatorVars(sc, g) ==
  {GroupPath(sc, g) \o <<"discriminator", d, w>> :
     d \in DenseLayers, w \in {"kernel", "bias"}}

\* scope components whose text contains "discriminator"
ContainsDiscriminator(component) == component = "discriminator"

\* re.match('.*discriminator.*', name) on the '/'-joined name
MatchesDiscriminator(name) ==
  \E i \in 1..Len(name) : ContainsDiscriminator(name[i])

-----------------------------------------------------------------------------
\* Losses: a loss is a set of summands

ReconTerm(p) == [kind |-> "recon", pass |-> p, label |-> -1]

\* _compute_discriminator_loss(discriminator_logits_<p>, labels)
DiscTerm(p, lab) == [kind |-> "disc", pass |-> p, label |-> lab]

NoLoss == {}

\* parameters a summand is computed from
ReadsTerm(sc, t) ==
  LET p == t.pass
      enc == {EmbeddingVar(EncoderLang(p)), EncoderVar(sc, GroupOf(p))}
  IN  IF t.kind = "disc"
      THEN enc \cup DiscriminatorVars(sc, GroupOf(p))
      ELSE enc \cup {DecoderVar(sc, GroupOf(p)),
                     EmbeddingVar(DecoderLang(p)),
                     ProjectionVar(sc, DecoderLang(p))}

Reads(sc, loss) == UNION {ReadsTerm(sc, t) : t \in loss}

\* iterators whose get_next a fetch of the loss evaluates
IteratorsOf(loss) == {t.pass : t \in loss}

VARIABLES
  mode, cls, scope, hparams,       \* constructor arguments
  pc,                              \* position of the constructor
  error,                           \* exception raised by the constructor
  attrs,                           \* attributes set on self so far
  trainable,                       \* tf.trainable_variables()
  graph,                           \* what build_graph returned
  train_loss_ae, train_loss_D, eval_loss,
  global_step,
  params_ae, params_D,
  update_ae, update_D,
  version,                         \* parameter -> number of updates applied
  iter_pos,                        \* iterator -> number of batches yielded
  ncalls,                          \* train()/eval() calls issued
  trainCalls,                      \* train() calls that returned
  lastCall,                        \* the last call and how it ended
  last,                            \* what the last train() run observed
  enc_table,                       \* pass -> attribute its encoder looked up
  sched,                           \* learning-rate schedule being evaluated
  decoding,                        \* an inference decode in progress
  encoding,                        \* an encoder being built
  recon                            \* a reconstruction loss being computed

vars == <<mode, cls, scope, hparams, pc, error, attrs, trainable, graph,
          train_loss_ae, train_loss_D, eval_loss, global_step, params_ae,
          params_D, update_ae, update_D, version, iter_pos, ncalls,
          trainCalls, lastCall, last, enc_table, sched, decoding, encoding,
          recon>>

ctor_args == <<mode, cls, scope, hparams>>
\* the computations followed on their own (schedule, decoding, encoder state,
\* reconstruction loss)
aux_vars == <<sched, decoding, encoding, recon>>
session_vars == <<version, iter_pos, ncalls, trainCalls, lastCall, last>>
train_vars == <<train_loss_ae, train_loss_D, eval_loss, global_step,
                params_ae, params_D, update_ae, update_D>>

NoUpdate == [vars |-> {}, loss |-> NoLoss, global_step |-> FALSE]
NoGraph == [loss |-> NoLoss, loss_adv |-> NoLoss]
Empty == [x \in {} |-> 0]
NoError == [type |-> "none", at |-> "none"]

\* an exception and the function that raised it
Raised(type, where) == [type |-> type, at |-> where]

Idle == [pc |-> "idle"]

Init ==
  /\ sched = Idle
  /\ decoding = Idle
  /\ encoding = Idle
  /\ recon = Idle
  /\ enc_table = Empty
  /\ mode \in Modes
  /\ cls \in Classes
  /\ scope \in Scopes
  /\ hparams \in HParams
  /\ pc = "new"
  /\ error = NoError
  /\ attrs = {}
  /\ trainable = {}
  /\ graph = NoGraph
  /\ train_loss_ae = NoLoss
  /\ train_loss_D = NoLoss
  /\ eval_loss = NoLoss
  /\ global_step = 0
  /\ params_ae = {}
  /\ params_D = {}
  /\ update_ae = NoUpdate
  /\ update_D = NoUpdate
  /\ version = Empty
  /\ iter_pos = [p \in Passes |-> 0]
  /\ ncalls = 0
  /\ trainCalls = 0
  /\ lastCall = [op |-> "none", result |-> "none"]
  /\ last = [start |-> Empty, seen_ae |-> Empty, seen_D |-> Empty,
             batch_ae |-> Empty, batch_D |-> Empty]

-----------------------------------------------------------------------------
\* Construction: BaseModel.__init__

\* attributes assigned by __init__ before build_graph runs
\* (init_embeddings assigns embedding_src and embedding_tgt)
AttrsBeforeGraph ==
  {"iterator_s2s", "iterator_t2t", "iterator_s2t", "iterator_t2s", "mode",
   "src_vocab_table", "tgt_vocab_table", "time_major",
   "num_encoder_layers", "num_decoder_layers",
   "embedding_src", "embedding_tgt", "batch_size",
   "output_layer_src", "output_layer_tgt"}

\* __init__ up to and including the projection layers
InitEmbeddings ==
  /\ pc = "new"
  /\ attrs' = AttrsBeforeGraph
  /\ trainable' = {EmbeddingVar("src"), EmbeddingVar("tgt")}
  /\ pc' = "embeddings"
  /\ UNCHANGED <<aux_vars, enc_table, ctor_args,
                 error, graph, train_vars, session_vars>>

\* the _build_encoder hook: "ok", "None" (the abstract body returns None) or
\* the exception it raises.  Model's hook reads self.embedding_encoder before
\* it looks at encoder_type.
build_encoder(c, hp, at) ==
  CASE c = "BaseModel" -> "None"
    [] c = "Subclass" -> "ok"
    [] c = "Model" ->
         IF "embedding_encoder" \notin at THEN "AttributeError"
         ELSE IF hp.encoder_type \in {"uni", "bi"} THEN "ok"
         ELSE "ValueError"

\* attribute of self holding the table `embedding` that build_graph passes
\* to _build_encoder for the pass
EmbeddingArg(p) == "embedding_" \o EncoderLang(p)

\* variant: the encoder looks up the table it was given
EncoderEmbedding_Passed(c, p) ==
  IF c = "BaseModel" THEN "none" ELSE EmbeddingArg(p)

\* the attribute whose table the hook hands to tf.nn.embedding_lookup:
\* Model's hook reads self.embedding_encoder whatever `embedding` is; the
\* abstract body looks nothing up
EncoderEmbedding(c, p) ==
  CASE c = "BaseModel" -> "none"
    [] c = "Subclass" -> EmbeddingArg(p)
    [] c = "Model" -> "embedding_encoder"

\* the lookups of the encoders build_graph got to
EncoderLookups(c, ps) ==
  [p \in {q \in ps : EncoderEmbedding(c, q) # "none"} |->
     EncoderEmbedding(c, p)]

\* the _build_decoder_cell hook, called by _build_decoder
build_decoder_cell(c, hp) ==
  CASE c = "BaseModel" -> "None"
    [] c = "Subclass" -> "ok"
    [] c = "Model" -> IF hp.attention THEN "ValueError" ELSE "ok"

\* unpacking `a, b = hook(...)`: None is not iterable; an exception of the
\* hook propagates
Unpack(r, hook, caller) ==
  IF r = "None" THEN Raised("TypeError", caller)
  ELSE IF r = "ok" THEN NoError
  ELSE Raised(r, hook)

\* the summands of `loss` and `loss_adv` returned by build_graph
GraphLoss(m) ==
  IF m # "INFER"
  THEN [loss |-> {ReconTerm(p) : p \in Passes}
                   \cup {DiscTerm(p, D_labels(p)) : p \in Passes},
        loss_adv |-> {DiscTerm(p, 1 - D_labels(p)) : p \in Passes}]
  ELSE NoGraph

\* variables one group of passes creates: encoders, discriminator, decoders
GroupVars(sc, g) ==
  {EncoderVar(sc, g), DecoderVar(sc, g)} \cup DiscriminatorVars(sc, g)

\* build_graph: the first exception of the twelve hook calls, else the
\* variables of both groups and the losses
BuildGraph ==
  /\ pc = "embeddings"
  /\ LET enc == Unpack(build_encoder(cls, hparams, attrs),
                        "_build_encoder", "build_graph")
         dec == Unpack(build_decoder_cell(cls, hparams),
                        "_build_decoder_cell", "_build_decoder")
     IN  IF enc # NoError
         THEN /\ pc' = "failed"
              /\ error' = enc
              /\ enc_table' = EncoderLookups(cls, {"s2s"})
              /\ UNCHANGED <<trainable, graph>>
         ELSE IF dec # NoError
         THEN /\ pc' = "failed"
              /\ error' = dec
              /\ enc_table' = EncoderLookups(cls, {"s2s", "t2t"})
              /\ trainable' = trainable \cup {EncoderVar(scope, "auto")}
                                \cup DiscriminatorVars(scope, "auto")
              /\ UNCHANGED graph
         ELSE /\ pc' = "graph"
              /\ error' = NoError
              /\ enc_table' = EncoderLookups(cls, Passes)
              /\ trainable' = trainable \cup GroupVars(scope, "auto")
                                \cup GroupVars(scope, "cross")
                                \cup {ProjectionVar(scope, "src"),
                                      ProjectionVar(scope, "tgt")}
              /\ graph' = GraphLoss(mode)
  /\ UNCHANGED <<aux_vars, ctor_args, attrs, train_vars, session_vars>>

\* tf.trainable_variables(scope='.*discriminator.*')
DiscriminatorParams(tv) == {v \in tv : MatchesDiscriminator(v)}

\* variant: the discriminator set is not subtracted
AutoencoderParams_NoSubtract(tv, pD) == tv

\* list(set(tf.trainable_variables()) - set(params_D))
AutoencoderParams(tv, pD) == tv \ pD

\* `..., train_loss_ae, train_loss_D = self.build_graph(...)`, the mode
\* dependent attributes, the global step and the parameter partition
Partition ==
  /\ pc = "graph"
  /\ train_loss_ae' = IF mode = "TRAIN" THEN graph.loss ELSE NoLoss
  /\ train_loss_D' = IF mode = "TRAIN" THEN graph.loss_adv ELSE NoLoss
  /\ eval_loss' = IF mode = "EVAL" THEN graph.loss ELSE NoLoss
  /\ global_step' = 0
  /\ params_D' = DiscriminatorParams(trainable)
  /\ params_ae' = AutoencoderParams(trainable, DiscriminatorParams(trainable))
  /\ version' = [v \in trainable |-> 0]
  /\ pc' = "partitioned"
  /\ UNCHANGED <<aux_vars, enc_table, ctor_args,
                 error, attrs, trainable, graph, update_ae,
                 update_D, iter_pos, ncalls, trainCalls, lastCall, last>>

\* _get_learning_rate_warmup: the scheme test
WarmupSchemeKnown(hp) == hp.warmup_scheme = "t2t"

\* variant: the final `elif ...: raise ValueError` branch is missing
DecaySchemeKnown_NoRaise(hp) == TRUE

\* _get_learning_rate_decay: the scheme test ("" is the falsy scheme)
DecaySchemeKnown(hp) ==
  \/ hp.decay_scheme \in {"luong5", "luong10", "luong234"}
  \/ hp.decay_scheme = ""

\* train_params(train_vars, train_loss): the update op it returns
train_params(tvars, tloss) ==
  [vars |-> tvars, loss |-> tloss, global_step |-> TRUE]

\* `if self.mode == TRAIN:` learning rate and the two update ops
SetupTraining ==
  /\ pc = "partitioned"
  /\ IF mode = "TRAIN"
     THEN IF ~WarmupSchemeKnown(hparams)
          THEN /\ pc' = "failed"
               /\ error' = Raised("ValueError", "_get_learning_rate_warmup")
               /\ UNCHANGED <<update_ae, update_D>>
          ELSE IF ~DecaySchemeKnown(hparams)
          THEN /\ pc' = "failed"
               /\ error' = Raised("ValueError", "_get_learning_rate_decay")
               /\ UNCHANGED <<update_ae, update_D>>
          ELSE /\ pc' = "trainable"
               /\ update_ae' = train_params(params_ae, train_loss_ae)
               /\ update_D' = train_params(params_D, train_loss_D)
               /\ UNCHANGED error
     ELSE /\ pc' = "trainable"
          /\ UNCHANGED <<error, update_ae, update_D>>
  /\ UNCHANGED <<aux_vars, enc_table, ctor_args,
                 attrs, trainable, graph, train_loss_ae,
                 train_loss_D, eval_loss, global_step, params_ae, params_D,
                 session_vars>>

\* infer summaries, saver, printing: the constructor returns
Finish ==
  /\ pc = "trainable"
  /\ pc' = "constructed"
  /\ UNCHANGED <<aux_vars, enc_table, ctor_args,
                 error, attrs, trainable, graph, train_vars,
                 session_vars>>

-----------------------------------------------------------------------------
\* Session runs: train() and eval()

\* variant: the assertion is missing
AssertMode_Missing(m, required) == TRUE

\* `assert self.mode == <required>`
AssertMode(m, required) == m = required

\* one get_next per iterator a run evaluates: each of them yields its next
\* batch, the others stay where they are
GetNext(pos, its) ==
  [p \in Passes |-> IF p \in its THEN pos[p] + 1 ELSE pos[p]]

\* opt.apply_gradients(zip(clipped_grads, train_vars), global_step=...):
\* every variable of the update the loss depends on takes one step
ApplyGradients(sc, upd, ver) ==
  [v \in DOMAIN ver |->
     IF v \in upd.vars /\ v \in Reads(sc, upd.loss) THEN ver[v] + 1
     ELSE ver[v]]

\* the increment apply_gradients makes to the global_step it was given
StepAfter(upd, gs) == IF upd.global_step THEN gs + 1 ELSE gs

\* sess.run of an update op together with other fetched losses / counts:
\* pulls one batch from every iterator involved, computes the gradients of
\* the update's loss on the current parameter values, then applies them
SessRun(sc, upd, others, ver, pos, gs) ==
  LET its == IteratorsOf(upd.loss) \cup others
  IN  [batch |-> [p \in its |-> pos[p]],
       seen |-> [v \in Reads(sc, upd.loss) \cap DOMAIN ver |-> ver[v]],
       iter_pos |-> GetNext(pos, its),
       version |-> ApplyGradients(sc, upd, ver),
       global_step |-> StepAfter(upd, gs)]

\* train(): the assertion, then the run of update_ae, then the run of
\* update_D (train_summary merges the summaries of both losses;
\* predict_count_s2s, word_count_s2s and batch_size read iterator_s2s)
Train ==
  /\ pc = "constructed"
  /\ ncalls < MaxCalls
  /\ ncalls' = ncalls + 1
  /\ IF ~AssertMode(mode, "TRAIN")
     THEN /\ lastCall' = [op |-> "train", result |-> "AssertionError"]
          /\ UNCHANGED <<global_step, version, iter_pos, trainCalls, last>>
     ELSE LET res_ae == SessRun(scope, update_ae,
                                IteratorsOf(train_loss_D) \cup {"s2s"},
                                version, iter_pos, global_step)
              res_D == SessRun(scope, update_D, {},
                               res_ae.version, res_ae.iter_pos,
                               res_ae.global_step)
          IN  /\ lastCall' = [op |-> "train", result |-> "ok"]
              /\ global_step' = res_D.global_step
              /\ version' = res_D.version
              /\ iter_pos' = res_D.iter_pos
              /\ trainCalls' = trainCalls + 1
              /\ last' = [start |-> version,
                          seen_ae |-> res_ae.seen, seen_D |-> res_D.seen,
                          batch_ae |-> res_ae.batch, batch_D |-> res_D.batch]
  /\ UNCHANGED <<aux_vars, enc_table, ctor_args,
                 pc, error, attrs, trainable, graph,
                 train_loss_ae, train_loss_D, eval_loss, params_ae, params_D,
                 update_ae, update_D>>

\* eval(): the assertion, then one run fetching eval_loss,
\* predict_count_s2s and batch_size
Eval ==
  /\ pc = "constructed"
  /\ ncalls < MaxCalls
  /\ ncalls' = ncalls + 1
  /\ IF ~AssertMode(mode, "EVAL")
     THEN /\ lastCall' = [op |-> "eval", result |-> "AssertionError"]
          /\ UNCHANGED iter_pos
     ELSE /\ lastCall' = [op |-> "eval", result |-> "ok"]
          /\ iter_pos' = GetNext(iter_pos, IteratorsOf(eval_loss) \cup {"s2s"})
  /\ UNCHANGED <<aux_vars, enc_table, ctor_args,
                 pc, error, attrs, trainable, graph, train_vars,
                 version, trainCalls, last>>

Next ==
  \/ InitEmbeddings
  \/ BuildGraph
  \/ Partition
  \/ SetupTraining
  \/ Finish
  \/ Train
  \/ Eval

Spec == Init /\ [][Next]_vars

-----------------------------------------------------------------------------
\* Properties

Constructed == pc = "constructed"

\* C1: in TRAIN mode every train() call advances the global step by exactly
\* one, so the global step equals the number of train() calls made
C1_GlobalStepCountsTrainCalls ==
  (Constructed /\ mode = "TRAIN") => global_step = trainCalls

\* C2: the gradients update_D applies were computed on the parameter values
\* that held when the train() call started
C2_UpdateDSeesStartOfCallValues ==
  trainCalls > 0 =>
    \A v \in DOMAIN last.seen_D : last.seen_D[v] = last.start[v]

\* C3: update_ae and update_D of one train() call work on the same batch,
\* and every iterator has yielded one batch per train() call
C3_OneBatchPerTrainCall ==
  (Constructed /\ mode = "TRAIN") =>
    /\ \A p \in Passes : iter_pos[p] = trainCalls
    /\ trainCalls > 0 => last.batch_ae = last.batch_D

\* C4: the loss update_ae minimises is recon_AA + recon_BB plus the four
\* flipped-label adversarial losses, and nothing else
C4_LossAeIsAutoPlusAdversarial ==
  (Constructed /\ mode = "TRAIN") =>
    /\ train_loss_ae =
         {ReconTerm("s2s"), ReconTerm("t2t"),
          DiscTerm("s2s", 1), DiscTerm("s2t", 1),
          DiscTerm("t2t", 0), DiscTerm("t2s", 0)}
    /\ update_ae.loss = train_loss_ae

\* C5: the loss update_D minimises is the four discriminator losses on the
\* true language labels, and update_D steps the discriminator set only
C5_LossDIsTrueLabelDiscriminatorLoss ==
  (Constructed /\ mode = "TRAIN") =>
    /\ train_loss_D =
         {DiscTerm("s2s", 0), DiscTerm("s2t", 0),
          DiscTerm("t2t", 1), DiscTerm("t2s", 1)}
    /\ update_D.loss = train_loss_D
    /\ update_D.vars = params_D

\* C6: once the constructor has split the trainable parameters, params_ae
\* and params_D are disjoint, together they are all trainable parameters,
\* and a parameter is in params_D exactly when a component of its name
\* contains "discriminator"
C6_ParameterPartition ==
  pc \in {"partitioned", "trainable", "constructed"} =>
    /\ params_ae \cap params_D = {}
    /\ params_ae \cup params_D = trainable
    /\ Cardinality(params_ae) + Cardinality(params_D) = Cardinality(trainable)
    /\ \A v \in trainable :
         v \in params_D <=> \E i \in DOMAIN v : v[i] = "discriminator"

\* a model whose both parameter sets are populated
C6_Witness ==
  /\ Constructed
  /\ params_D # {}
  /\ params_ae # {}
  /\ Cardinality(trainable) > Cardinality(params_D)

\* the kernels named layer/kernel among the trainable variables
KernelsOf(layer) ==
  {v \in trainable :
     \E i \in 1..(Len(v) - 1) : v[i] = layer /\ v[i + 1] = "kernel"}

\* C7: with the default scope there is exactly one dense1_D, one dense2_D
\* and one dense_last_D, shared by the auto and the cross passes
C7_OneDiscriminatorWeightSet ==
  (Constructed /\ scope = "None") =>
    /\ \A d \in DenseLayers : Cardinality(KernelsOf(d)) = 1
    /\ DiscriminatorVars(scope, "auto") = DiscriminatorVars(scope, "cross")

BuildGraphDone == pc \notin {"new", "embeddings"}

\* C8: with the basic Model, an encoder_type other than uni/bi or
\* attention=true makes construction fail with a ValueError, in every mode
C8_BadEncoderOrAttentionRaisesValueError ==
  (/\ cls = "Model"
   /\ hparams.encoder_type \notin {"uni", "bi"} \/ hparams.attention
   /\ BuildGraphDone)
    => (pc = "failed" /\ error.type = "ValueError")

BadSchemes ==
  \/ hparams.warmup_scheme # "t2t"
  \/ hparams.decay_scheme \notin {"", "luong5", "luong10", "luong234"}

ScheduleBuilders == {"_get_learning_rate_warmup", "_get_learning_rate_decay"}

\* C9 as stated: in every mode an unknown warmup or decay scheme keeps the
\* constructor from returning a model
C9_UnknownSchemeRejectedInEveryMode ==
  BadSchemes => ~Constructed

\* C9 amended: in TRAIN mode an unknown warmup or decay scheme keeps the
\* constructor from returning a model, and the exception the schedule
\* builders raise is a ValueError; in EVAL and INFER mode the schedule
\* builders are not run
C9_UnknownSchemeRejectedInTrainMode ==
  /\ (mode = "TRAIN" /\ BadSchemes)
       => pc \notin {"trainable", "constructed"}
  /\ error.at \in ScheduleBuilders
       => (mode = "TRAIN" /\ BadSchemes /\ pc = "failed"
           /\ error.type = "ValueError")
  /\ (mode = "TRAIN" /\ BadSchemes /\ pc = "failed")
       => (error.at \in ScheduleBuilders \/ error.at \in
             {"build_graph", "_build_encoder", "_build_decoder",
              "_build_decoder_cell"})

\* TRAIN construction stopped by the decay scheme alone
C9_Witness ==
  /\ mode = "TRAIN"
  /\ hparams.warmup_scheme = "t2t"
  /\ hparams.decay_scheme = "exp"
  /\ pc = "failed"
  /\ error = Raised("ValueError", "_get_learning_rate_decay")

\* C10: the mode never changes, and train() outside TRAIN mode or eval()
\* outside EVAL mode ends in an AssertionError with the global step, the
\* parameters and the iterator positions as they were
C10_ModeMisuseAsserts ==
  [][/\ mode' = mode
     /\ (/\ ncalls' = ncalls + 1
         /\ \/ lastCall'.op = "train" /\ mode # "TRAIN"
            \/ lastCall'.op = "eval" /\ mode # "EVAL")
          => /\ lastCall'.result = "AssertionError"
             /\ UNCHANGED <<global_step, version, iter_pos>>]_vars

\* a train() call refused on an EVAL model that has already evaluated
C10_Witness ==
  /\ mode = "EVAL"
  /\ lastCall = [op |-> "train", result |-> "AssertionError"]
  /\ iter_pos["s2s"] > 0
  /\ global_step = 0

-----------------------------------------------------------------------------
\* Computations followed on their own.  The rest of the object plays no
\* part in them and is parked.

main_vars == <<mode, cls, scope, hparams, pc, error, attrs, trainable, graph,
               train_loss_ae, train_loss_D, eval_loss, global_step,
               params_ae, params_D, update_ae, update_D, version, iter_pos,
               ncalls, trainCalls, lastCall, last, enc_table>>

Parked(m) ==
  /\ mode = m
  /\ cls = "Subclass"
  /\ scope = "None"
  /\ hparams = [encoder_type |-> "uni", attention |-> FALSE,
                warmup_scheme |-> "t2t", decay_scheme |-> ""]
  /\ pc = "constructed"
  /\ error = NoError
  /\ attrs = AttrsBeforeGraph
  /\ trainable = {}
  /\ graph = NoGraph
  /\ train_loss_ae = NoLoss
  /\ train_loss_D = NoLoss
  /\ eval_loss = NoLoss
  /\ global_step = 0
  /\ params_ae = {}
  /\ params_D = {}
  /\ update_ae = NoUpdate
  /\ update_D = NoUpdate
  /\ version = Empty
  /\ iter_pos = [p \in Passes |-> 0]
  /\ ncalls = 0
  /\ trainCalls = 0
  /\ lastCall = [op |-> "none", result |-> "none"]
  /\ last = [start |-> Empty, seen_ae |-> Empty, seen_D |-> Empty,
             batch_ae |-> Empty, batch_D |-> Empty]
  /\ enc_table = Empty

-----------------------------------------------------------------------------
\* Inference decoding: _get_infer_maximum_iterations, the INFER branch of
\* _build_decoder, infer() / infer_cross() and decode() / decode_cross()

\* largest batch and longest source sentence considered
MaxBatch == 3
MaxSrcLen == 2

\* hparams.beam_width: 0 is greedy / sampling
BeamWidths == {0, 2, 5}

\* hparams.tgt_max_len_infer: 0 stands for the unset (falsy) value
TgtMaxLenInfer == {0, 1, 3}

decoding_length_factor == 2

SourceLengths ==
  UNION {[1..b -> 1..MaxSrcLen] : b \in 1..MaxBatch}

\* tf.reduce_max
reduce_max(xs) ==
  CHOOSE m \in {xs[i] : i \in DOMAIN xs} : \A i \in DOMAIN xs : xs[i] <= m

\* variant: the tgt_max_len_infer override is not looked at
get_infer_maximum_iterations_NoOverride(tgt_max_len_infer, lens) ==
  reduce_max(lens) * decoding_length_factor

\* _get_infer_maximum_iterations
get_infer_maximum_iterations(tgt_max_len_infer, lens) ==
  IF tgt_max_len_infer # 0
  THEN tgt_max_len_infer
  ELSE reduce_max(lens) * decoding_length_factor

\* an array shape: the axes in order, each with its size
Axis(name, size) == <<name, size>>

\* outputs.predicted_ids of the beam search decoder / outputs.sample_id of
\* the basic decoder, as dynamic_decode(output_time_major=time_major) lays
\* them out
SampleIdShape(time_major, beam_width, batch, time) ==
  IF beam_width > 0
  THEN IF time_major
       THEN <<Axis("time", time), Axis("batch", batch),
              Axis("beam", beam_width)>>
       ELSE <<Axis("batch", batch), Axis("time", time),
              Axis("beam", beam_width)>>
  ELSE IF time_major
       THEN <<Axis("time", time), Axis("batch", batch)>>
       ELSE <<Axis("batch", batch), Axis("time", time)>>

\* ndarray.transpose(): the axes reversed
Transpose(shape) == [i \in DOMAIN shape |-> shape[Len(shape) + 1 - i]]

\* ndarray.transpose(perm), perm counting axes from 0
TransposePerm(shape, perm) == [i \in DOMAIN perm |-> shape[perm[i] + 1]]

\* variant: the beam search branch for batch-major output is missing
decode_layout_NoBeamBranch(time_major, ndim, shape) ==
  IF time_major THEN Transpose(shape) ELSE shape

\* decode() / decode_cross(): the layout of one returned word array;
\* ndim is sample_words_src.ndim
decode_layout(time_major, ndim, shape) ==
  IF time_major THEN Transpose(shape)
  ELSE IF ndim = 3 THEN TransposePerm(shape, <<2, 0, 1>>)
  ELSE shape

DecodeInputs ==
  [time_major : BOOLEAN, beam_width : BeamWidths,
   tgt_max_len_infer : TgtMaxLenInfer,
   source_sequence_length : SourceLengths]

InitDecode ==
  /\ Parked("INFER")
  /\ sched = Idle
  /\ encoding = Idle
  /\ recon = Idle
  /\ \E in \in DecodeInputs :
       decoding = [pc |-> "built", in |-> in, maximum_iterations |-> 0,
                   time |-> 0, finished |-> 0, other_time |-> 0,
                   words_src |-> <<>>, words_tgt |-> <<>>, op |-> "none"]

BatchOf(d) == Len(d.in.source_sequence_length)

\* sess.run starts the decoder: maximum_iterations is evaluated on the
\* batch and no sequence has finished
StartDecode ==
  /\ decoding.pc = "built"
  /\ decoding' =
       [decoding EXCEPT
          !.pc = "decoding",
          !.maximum_iterations =
             get_infer_maximum_iterations(
               decoding.in.tgt_max_len_infer,
               decoding.in.source_sequence_length)]
  /\ UNCHANGED <<main_vars, sched, encoding, recon>>

\* one iteration of dynamic_decode(maximum_iterations=...): some of the
\* unfinished sequences reach their end token; at the step limit all are
\* finished
DecodeStep ==
  /\ decoding.pc = "decoding"
  /\ decoding.finished < BatchOf(decoding)
  /\ \E f \in decoding.finished..BatchOf(decoding) :
       decoding' =
         [decoding EXCEPT
            !.time = @ + 1,
            !.finished =
               IF decoding.time + 1 >= decoding.maximum_iterations
               THEN BatchOf(decoding) ELSE f]
  /\ UNCHANGED <<main_vars, sched, encoding, recon>>

\* the loop has ended: the word arrays of the two languages come back from
\* sess.run (the other language's decoder ran its own number of steps)
DecodeDone ==
  /\ decoding.pc = "decoding"
  /\ decoding.finished = BatchOf(decoding)
  /\ \E t \in 1..(MaxSrcLen * decoding_length_factor) :
       decoding' =
         [decoding EXCEPT
            !.pc = "decoded",
            !.other_time = t,
            !.words_src =
               SampleIdShape(decoding.in.time_major, decoding.in.beam_width,
                             BatchOf(decoding), decoding.time),
            !.words_tgt =
               SampleIdShape(decoding.in.time_major, decoding.in.beam_width,
                             BatchOf(decoding), t)]
  /\ UNCHANGED <<main_vars, sched, encoding, recon>>

\* the tail of decode() and of decode_cross(): both arrays are laid out by
\* the test on time_major and on sample_words_src.ndim
Returned(d, op) ==
  [d EXCEPT
     !.pc = "returned",
     !.op = op,
     !.words_src = decode_layout(d.in.time_major, Len(d.words_src),
                                 d.words_src),
     !.words_tgt = decode_layout(d.in.time_major, Len(d.words_src),
                                 d.words_tgt)]

Decode ==
  /\ decoding.pc = "decoded"
  /\ decoding' = Returned(decoding, "decode")
  /\ UNCHANGED <<main_vars, sched, encoding, recon>>

DecodeCross ==
  /\ decoding.pc = "decoded"
  /\ decoding' = Returned(decoding, "decode_cross")
  /\ UNCHANGED <<main_vars, sched, encoding, recon>>

NextDecode ==
  \/ StartDecode
  \/ DecodeStep
  \/ DecodeDone
  \/ Decode
  \/ DecodeCross

SpecDecode == InitDecode /\ [][NextDecode]_vars

\* the session run and the wrapper run to completion
SpecDecodeFair == SpecDecode /\ WF_vars(NextDecode)

\* the shape the claim gives for a returned word array
ExpectedWords(d, time) ==
  IF d.in.beam_width > 0
  THEN <<Axis("beam", d.in.beam_width), Axis("batch", BatchOf(d)),
         Axis("time", time)>>
  ELSE <<Axis("batch", BatchOf(d)), Axis("time", time)>>

\* C11: decode() and decode_cross() return word arrays of shape
\* [batch, time] without beam search and [beam_width, batch, time] with it,
\* whatever time_major is
C11_DecodeShapes ==
  decoding.pc = "returned" =>
    /\ decoding.words_src = ExpectedWords(decoding, decoding.time)
    /\ decoding.words_tgt = ExpectedWords(decoding, decoding.other_time)

\* beam_width = 5, batch = 3, batch-major: [5, 3, time]
C11_Witness ==
  /\ decoding.pc = "returned"
  /\ decoding.op = "decode_cross"
  /\ ~decoding.in.time_major
  /\ decoding.words_src =
       <<Axis("beam", 5), Axis("batch", 3), Axis("time", decoding.time)>>

\* the step limit the claim gives
ExpectedLimit(d) ==
  IF d.in.tgt_max_len_infer # 0 THEN d.in.tgt_max_len_infer
  ELSE 2 * reduce_max(d.in.source_sequence_length)

\* C12: an inference decode never runs more than maximum_iterations steps
\* (tgt_max_len_infer if set, else twice the longest source sentence of
\* the batch) and always ends
C12_DecodeTerminatesWithinLimit ==
  /\ [](decoding.time <= ExpectedLimit(decoding))
  /\ [](decoding.pc = "decoding" =>
          decoding.maximum_iterations = ExpectedLimit(decoding))
  /\ <>(decoding.pc = "returned")

\* a decode cut off by the step limit before every sequence ended by itself
C12_Witness ==
  /\ decoding.pc = "decoded"
  /\ decoding.in.tgt_max_len_infer = 0
  /\ decoding.in.beam_width = 5
  /\ decoding.time = 2 * reduce_max(decoding.in.source_sequence_length)
  /\ decoding.time = 4

-----------------------------------------------------------------------------
\* Reconstruction loss: _compute_loss on the batch of one pass

\* largest batch and longest target sentence considered for a loss
MaxLossBatch == 2
MaxTgtLen == 2

\* token-level cross entropies, as whole numbers
CrossentValues == {1, 2}

TargetLengths ==
  UNION {[1..b -> 1..MaxTgtLen] : b \in 1..MaxLossBatch}

\* tf.sequence_mask(target_sequence_length, max_time)
sequence_mask(lens, max_time) ==
  [b \in DOMAIN lens |-> [t \in 1..max_time |-> IF t <= lens[b] THEN 1 ELSE 0]]

\* sum of a number sequence
RECURSIVE SumSeq(_)
SumSeq(xs) == IF xs = <<>> THEN 0 ELSE xs[1] + SumSeq(Tail(xs))

\* tf.reduce_sum(crossent * target_weights)
reduce_sum_masked(crossent, weights) ==
  SumSeq([b \in DOMAIN crossent |->
            SumSeq([t \in DOMAIN crossent[b] |->
                      crossent[b][t] * weights[b][t]])])

\* _compute_loss: the masked sum over tf.to_float(self.batch_size), kept
\* as the fraction num / den; self.batch_size is
\* tf.size(self.iterator_s2s.source_sequence_length)
compute_loss(crossent, target_sequence_length, batch_size) ==
  LET max_time == reduce_max(target_sequence_length)
      target_weights == sequence_mask(target_sequence_length, max_time)
  IN  [num |-> reduce_sum_masked(crossent, target_weights),
       den |-> batch_size]

\* the batch an iterator yields: target lengths and, for every position of
\* the padded target matrix, the cross entropy of the logits there
LossBatches ==
  UNION {[target_sequence_length : {lens},
          crossent : [DOMAIN lens ->
                        [1..reduce_max(lens) -> CrossentValues]]] :
           lens \in TargetLengths}

\* the same batch twice
Tiled(batch) ==
  [target_sequence_length |->
     batch.target_sequence_length \o batch.target_sequence_length,
   crossent |-> batch.crossent \o batch.crossent]

InitLoss ==
  /\ Parked("TRAIN")
  /\ sched = Idle
  /\ decoding = Idle
  /\ encoding = Idle
  /\ \E p \in Passes, batch \in LossBatches, n \in 1..MaxLossBatch :
       \* iterator_s2s yields n sequences; for the s2s pass that is the
       \* batch itself
       /\ p = "s2s" => n = Len(batch.target_sequence_length)
       /\ recon = [pc |-> "batch", pass |-> p, batch |-> batch,
                   s2s_size |-> n,
                   loss |-> [num |-> 0, den |-> 1],
                   tiled_loss |-> [num |-> 0, den |-> 1]]

\* the loss of the pass on its batch
ComputeLoss ==
  /\ recon.pc = "batch"
  /\ recon' =
       [recon EXCEPT
          !.pc = "computed",
          !.loss = compute_loss(recon.batch.crossent,
                                recon.batch.target_sequence_length,
                                recon.s2s_size)]
  /\ UNCHANGED <<main_vars, sched, decoding, encoding>>

\* the loss of the pass on the same batch duplicated (iterator_s2s yields
\* the duplicated batch too when it is the pass's own iterator)
ComputeLossTiled ==
  /\ recon.pc = "computed"
  /\ LET twice == Tiled(recon.batch)
         n == IF recon.pass = "s2s"
              THEN Len(twice.target_sequence_length) ELSE recon.s2s_size
     IN  recon' =
           [recon EXCEPT
              !.pc = "tiled",
              !.tiled_loss = compute_loss(twice.crossent,
                                          twice.target_sequence_length, n)]
  /\ UNCHANGED <<main_vars, sched, decoding, encoding>>

NextLoss ==
  \/ ComputeLoss
  \/ ComputeLossTiled

SpecLoss == InitLoss /\ [][NextLoss]_vars

\* sum of the cross entropies at the positions below each true length
MaskedSum(batch) ==
  SumSeq([b \in DOMAIN batch.crossent |->
            SumSeq([t \in DOMAIN batch.crossent[b] |->
                      IF t <= batch.target_sequence_length[b]
                      THEN batch.crossent[b][t] ELSE 0])])

\* C13: the reconstruction loss of a pass is the masked sum of the token
\* cross entropies divided by the number of sequences of that pass's own
\* batch, so the loss of the batch duplicated equals the loss of the batch
C13_LossDividedByOwnBatchSize ==
  /\ recon.pc \in {"computed", "tiled"} =>
       recon.loss.num * Len(recon.batch.target_sequence_length)
         = MaskedSum(recon.batch) * recon.loss.den
  /\ recon.pc = "tiled" =>
       recon.tiled_loss.num * recon.loss.den
         = recon.loss.num * recon.tiled_loss.den

-----------------------------------------------------------------------------
\* Learning-rate schedule: _get_learning_rate_warmup and
\* _get_learning_rate_decay as functions of the global step
\*
\* A rate is kept symbolically: base_rate * 0.01^(warm_e / warm_w) * decay,
\* where decay is 0.5^k, or 0.0, or NaN.

\* largest num_train_steps, warmup_steps and number of steps run past
\* num_train_steps
MaxTrainSteps == 12
MaxWarmup == 7
MaxBeyond == 2

LuongSchemes == {"luong5", "luong10", "luong234"}

\* hparams.num_train_steps, hparams.warmup_steps, hparams.decay_scheme
ScheduleInputs ==
  [num_train_steps : (1..MaxTrainSteps) \cup {1000},
   warmup_steps : 0..MaxWarmup,
   decay_scheme : LuongSchemes \cup {""}]

\* decay multipliers
Halved(k) == [kind |-> "pow", k |-> k]
ZeroRate == [kind |-> "zero", k |-> 0]
NaNRate == [kind |-> "nan", k |-> 0]

\* self.learning_rate = tf.constant(hparams.learning_rate)
BaseRate == [warm_e |-> 0, warm_w |-> 1, decay |-> Halved(0)]

\* variant: tf.cond is missing, inv_decay multiplies the rate at every step
learning_rate_warmup_NoCond(warmup_steps, step, lr) ==
  [lr EXCEPT !.warm_e = warmup_steps - step, !.warm_w = warmup_steps]

\* _get_learning_rate_warmup ("t2t"): inv_decay * rate below warmup_steps,
\* with inv_decay = (0.01^(1/warmup_steps))^(warmup_steps - global_step)
learning_rate_warmup(warmup_steps, step, lr) ==
  IF step < warmup_steps
  THEN [lr EXCEPT !.warm_e = warmup_steps - step, !.warm_w = warmup_steps]
  ELSE lr

\* variant: every scheme starts to decay at half of the training steps
start_decay_step_Half(decay_scheme, num_train_steps) ==
  IF decay_scheme \in LuongSchemes
  THEN num_train_steps \div 2
  ELSE num_train_steps

\* start_decay_step of _get_learning_rate_decay
start_decay_step(decay_scheme, num_train_steps) ==
  IF decay_scheme \in {"luong5", "luong10"}
  THEN num_train_steps \div 2
  ELSE IF decay_scheme = "luong234"
       THEN (num_train_steps * 2) \div 3
       ELSE num_train_steps

\* decay_times of _get_learning_rate_decay
decay_times(decay_scheme) ==
  IF decay_scheme = "luong5" THEN 5
  ELSE IF decay_scheme = "luong10" THEN 10
  ELSE 4

\* decay_steps of _get_learning_rate_decay
decay_steps(decay_scheme, num_train_steps) ==
  IF decay_scheme \in LuongSchemes
  THEN (num_train_steps - start_decay_step(decay_scheme, num_train_steps))
         \div decay_times(decay_scheme)
  ELSE 0

\* variant: the no-decay branch keeps the factor 0.5
decay_factor_AlwaysHalf(decay_scheme) == 1

\* decay_factor of _get_learning_rate_decay, as the number of halvings it
\* stands for: 0.5 is one halving, 1.0 is none
decay_factor(decay_scheme) ==
  IF decay_scheme \in LuongSchemes THEN 1 ELSE 0

\* tf.train.exponential_decay(lr, step, steps, factor, staircase=True):
\* lr * factor^floor(step / steps) in floating point, where x / 0.0 is
\* NaN for x = 0 and +inf for x > 0, 0.5^inf = 0.0, 0.5^NaN = NaN and
\* 1.0^y = 1.0 for every y
exponential_decay(lr, step, steps, factor) ==
  IF factor = 0
  THEN lr
  ELSE IF steps = 0
       THEN [lr EXCEPT !.decay = IF step = 0 THEN NaNRate ELSE ZeroRate]
       ELSE [lr EXCEPT !.decay = Halved(factor * (step \div steps))]

\* _get_learning_rate_decay: the tf.cond on the global step
learning_rate_decay(in, step, lr) ==
  LET start == start_decay_step(in.decay_scheme, in.num_train_steps)
  IN  IF step < start
      THEN lr
      ELSE exponential_decay(lr, step - start,
                             decay_steps(in.decay_scheme, in.num_train_steps),
                             decay_factor(in.decay_scheme))

\* self.learning_rate evaluated at a global step: base rate, then warmup,
\* then decay
learning_rate(in, step) ==
  learning_rate_decay(in, step,
    learning_rate_warmup(in.warmup_steps, step, BaseRate))

InitSchedule ==
  /\ Parked("TRAIN")
  /\ decoding = Idle
  /\ encoding = Idle
  /\ recon = Idle
  /\ \E in \in ScheduleInputs :
       sched = [pc |-> "hparams", in |-> in, step |-> 0,
                rate |-> BaseRate, prev |-> BaseRate]

\* __init__ builds the schedule; the first session run evaluates it at
\* global step 0
BuildSchedule ==
  /\ sched.pc = "hparams"
  /\ sched' = [sched EXCEPT !.pc = "built",
                            !.rate = learning_rate(sched.in, 0),
                            !.prev = learning_rate(sched.in, 0)]
  /\ UNCHANGED <<main_vars, decoding, encoding, recon>>

\* apply_gradients advances the global step; the next run evaluates the
\* rate at the new step
AdvanceGlobalStep ==
  /\ sched.pc = "built"
  /\ sched.step < sched.in.num_train_steps + MaxBeyond
  /\ sched' = [sched EXCEPT !.step = sched.step + 1,
                            !.rate = learning_rate(sched.in, sched.step + 1),
                            !.prev = sched.rate]
  /\ UNCHANGED <<main_vars, decoding, encoding, recon>>

NextSchedule ==
  \/ BuildSchedule
  \/ AdvanceGlobalStep

SpecSchedule == InitSchedule /\ [][NextSchedule]_vars

ScheduleBuilt == sched.pc = "built"

\* the warmup-adjusted rate at step s: 0.01^((w - s)/w) of the base rate
\* below w, the base rate from w on
WarmupAdjusted(w, s) ==
  IF s < w THEN [warm_e |-> w - s, warm_w |-> w]
  ELSE [warm_e |-> 0, warm_w |-> 1]

WarmPart(r) == [warm_e |-> r.warm_e, warm_w |-> r.warm_w]

\* C14: with a luong scheme the rate at step s is the warmup-adjusted rate
\* below start_decay_step (num_train_steps/2 for luong5 and luong10,
\* 2*num_train_steps/3 for luong234) and that rate times
\* 0.5^floor((s - start_decay_step)/decay_steps) from there on (with a zero
\* decay_steps the quotient is the floating-point one: NaN at the start
\* step, infinite after it); with luong5 and 1000 training steps the rate
\* is the base rate at step 500 and half of it at step 500 + decay_steps
C14_LuongDecayFormula ==
  (ScheduleBuilt /\ sched.in.decay_scheme \in LuongSchemes) =>
    LET n == sched.in.num_train_steps
        s == sched.step
        start == IF sched.in.decay_scheme = "luong234"
                 THEN (2 * n) \div 3 ELSE n \div 2
        interval == decay_steps(sched.in.decay_scheme, n)
    IN  /\ WarmPart(sched.rate) = WarmupAdjusted(sched.in.warmup_steps, s)
        /\ s < start => sched.rate.decay = Halved(0)
        /\ (s >= start /\ interval > 0) =>
             sched.rate.decay = Halved((s - start) \div interval)
        /\ (s = start /\ interval = 0) => sched.rate.decay = NaNRate
        /\ (s > start /\ interval = 0) => sched.rate.decay = ZeroRate
        /\ (sched.in.decay_scheme = "luong5" /\ n = 1000) =>
             /\ s = 500 => sched.rate = BaseRate
             /\ s = 500 + interval =>
                  sched.rate = [BaseRate EXCEPT !.decay = Halved(1)]

C14_Witness ==
  /\ ScheduleBuilt
  /\ sched.in.decay_scheme = "luong5"
  /\ sched.in.num_train_steps = 1000
  /\ sched.step = 500 + decay_steps("luong5", 1000)
  /\ sched.rate.decay = Halved(1)

\* C15: with "t2t" warmup the rate below warmup_steps is the base rate
\* times 0.01^((warmup_steps - s)/warmup_steps): 0.01 of it at step 0,
\* strictly larger at every next step; from warmup_steps on the warmup
\* leaves the base rate unchanged; the decay acts on this rate at the same
\* global step
C15_WarmupThenDecay ==
  ScheduleBuilt =>
    LET w == sched.in.warmup_steps
        s == sched.step
    IN  /\ s < w => /\ sched.rate.warm_e = w - s
                    /\ sched.rate.warm_w = w
        /\ (s = 0 /\ 0 < w) => sched.rate.warm_e = sched.rate.warm_w
        /\ (0 < s /\ s <= w) =>
             /\ sched.prev.warm_w = w
             /\ sched.prev.warm_e > sched.rate.warm_e
        /\ s >= w => sched.rate.warm_e = 0
        /\ sched.rate.decay =
             learning_rate_decay(sched.in, s, BaseRate).decay

C15_Witness ==
  /\ ScheduleBuilt
  /\ sched.step > 0
  /\ sched.step < sched.in.warmup_steps
  /\ sched.rate.decay = Halved(1)
  /\ sched.in.warmup_steps = MaxWarmup
  /\ sched.rate.warm_e = MaxWarmup - sched.step

\* C16: for each luong scheme and every positive num_train_steps,
\* decay_steps is positive and at global step num_train_steps the rate has
\* been halved exactly decay_times times (5, 10, 4)
C16_ExactlyDecayTimesHalvings ==
  (ScheduleBuilt /\ sched.in.decay_scheme \in LuongSchemes) =>
    /\ decay_steps(sched.in.decay_scheme, sched.in.num_train_steps) > 0
    /\ sched.step = sched.in.num_train_steps =>
         sched.rate.decay =
           Halved(IF sched.in.decay_scheme = "luong5" THEN 5
                  ELSE IF sched.in.decay_scheme = "luong10" THEN 10
                  ELSE 4)

\* C17: with the empty decay scheme the rate at every global step, also at
\* and beyond num_train_steps, is the warmup-adjusted rate, neither NaN nor
\* zero
C17_EmptySchemeNeverDecays ==
  (ScheduleBuilt /\ sched.in.decay_scheme = "") =>
    /\ sched.rate.decay = Halved(0)
    /\ WarmPart(sched.rate) =
         WarmupAdjusted(sched.in.warmup_steps, sched.step)

C17_Witness ==
  /\ ScheduleBuilt
  /\ sched.in.decay_scheme = ""
  /\ sched.step > sched.in.num_train_steps
  /\ sched.rate.decay = Halved(0)

-----------------------------------------------------------------------------
\* Properties of the graph build_graph returns

LossesBuilt ==
  pc \in {"graph", "partitioned", "trainable", "constructed"} /\ mode # "INFER"

\* the discriminator summands of a loss that read the logits of pass p
DiscTermsOf(loss, p) == {t \in loss : t.kind = "disc" /\ t.pass = p}

\* C18: the discriminator loss of every pass has the constant label of the
\* language its encoder read (0 for s2s and s2t, 1 for t2t and t2s), and
\* the adversarial loss of the pass is taken on the same logits with the
\* label 1 - label
C18_LabelsByEncodedLanguage ==
  LossesBuilt =>
    \A p \in Passes :
      LET label == IF p \in {"s2s", "s2t"} THEN 0 ELSE 1
      IN  /\ (p \in {"s2s", "s2t"}) = (EncoderLang(p) = "src")
          /\ DiscTermsOf(graph.loss, p) = {DiscTerm(p, label)}
          /\ DiscTermsOf(graph.loss_adv, p) = {DiscTerm(p, 1 - label)}

C18_Witness ==
  /\ LossesBuilt
  /\ DiscTerm("s2t", 0) \in graph.loss
  /\ DiscTerm("t2s", 0) \in graph.loss_adv

\* C19: every encoder pass looks its token ids up in the table build_graph
\* passed for it (embedding_src for s2s and s2t, embedding_tgt for t2t and
\* t2s), and that table is an attribute init_embeddings created
C19_EncoderUsesPassedEmbedding ==
  BuildGraphDone =>
    \A p \in DOMAIN enc_table :
      /\ enc_table[p] = EmbeddingArg(p)
      /\ enc_table[p] \in attrs

-----------------------------------------------------------------------------
\* Model._build_encoder: the final state of one encoder pass

\* largest hparams.num_encoder_layers
MaxEncoderLayers == 5

\* final state of a stacked cell of n layers run in direction dir: one
\* entry per layer, bottom layer first
StackState(n, dir) == [i \in 1..n |-> [dir |-> dir, layer |-> i - 1]]

\* tf.nn.bidirectional_dynamic_rnn: (output_state_fw, output_state_bw)
bidirectional_state(num_bi_layers) ==
  <<StackState(num_bi_layers, "fw"), StackState(num_bi_layers, "bw")>>

\* variant: all forward states, then all backward states
interleave_states_Concat(bi_encoder_state, num_bi_layers) ==
  bi_encoder_state[1] \o bi_encoder_state[2]

\* the loop appending bi_encoder_state[0][layer_id], then
\* bi_encoder_state[1][layer_id], for layer_id in range(num_bi_layers)
interleave_states(bi_encoder_state, num_bi_layers) ==
  [j \in 1..(2 * num_bi_layers) |->
     IF j % 2 = 1
     THEN bi_encoder_state[1][(j + 1) \div 2]
     ELSE bi_encoder_state[2][j \div 2]]

\* encoder_state of Model._build_encoder for encoder_type "uni" and "bi"
encoder_state(encoder_type, num_layers) ==
  IF encoder_type = "uni"
  THEN [kind |-> "stack", state |-> StackState(num_layers, "uni")]
  ELSE LET num_bi_layers == num_layers \div 2
           bi_encoder_state == bidirectional_state(num_bi_layers)
       IN  IF num_bi_layers = 1
           THEN [kind |-> "pair", state |-> bi_encoder_state]
           ELSE [kind |-> "flat",
                 state |-> interleave_states(bi_encoder_state, num_bi_layers)]

NoState == [kind |-> "none", state |-> <<>>]

\* one call of the hook: the pass, hparams, and whether the object has an
\* embedding_encoder attribute (only a subclass of Model can have set it)
EncoderInputs ==
  [pass : Passes, encoder_type : EncoderTypes,
   num_encoder_layers : 1..MaxEncoderLayers,
   attrs : {AttrsBeforeGraph, AttrsBeforeGraph \cup {"embedding_encoder"}}]

InitEncoder ==
  /\ Parked("EVAL")
  /\ sched = Idle
  /\ decoding = Idle
  /\ recon = Idle
  /\ \E in \in EncoderInputs :
       encoding = [pc |-> "called", in |-> in, encoder_state |-> NoState,
                   error |-> NoError]

\* tf.nn.embedding_lookup(self.embedding_encoder, source)
EmbedSource ==
  /\ encoding.pc = "called"
  /\ encoding' =
       IF "embedding_encoder" \in encoding.in.attrs
       THEN [encoding EXCEPT !.pc = "embedded"]
       ELSE [encoding EXCEPT
               !.pc = "raised",
               !.error = Raised("AttributeError", "_build_encoder")]
  /\ UNCHANGED <<main_vars, sched, decoding, recon>>

\* the encoder_type branches, up to `return encoder_outputs, encoder_state`
RunEncoder ==
  /\ encoding.pc = "embedded"
  /\ encoding' =
       IF build_encoder("Model", encoding.in, encoding.in.attrs) = "ok"
       THEN [encoding EXCEPT
               !.pc = "returned",
               !.encoder_state =
                  encoder_state(encoding.in.encoder_type,
                                encoding.in.num_encoder_layers)]
       ELSE [encoding EXCEPT
               !.pc = "raised",
               !.error = Raised("ValueError", "_build_encoder")]
  /\ UNCHANGED <<main_vars, sched, decoding, recon>>

NextEncoder ==
  \/ EmbedSource
  \/ RunEncoder

SpecEncoder == InitEncoder /\ [][NextEncoder]_vars

-----------------------------------------------------------------------------
\* Model._build_decoder_cell: the decoder's initial state

\* tf.contrib.seq2seq.tile_batch(encoder_state, multiplier): every tensor
\* of the state repeated along the batch axis, the structure kept
tile_batch(st, multiplier) ==
  [kind |-> st.kind, state |-> st.state, multiplier |-> multiplier]

\* decoder_initial_state of Model._build_decoder_cell
decoder_initial_state(m, beam_width, st) ==
  IF m = "INFER" /\ beam_width > 0
  THEN tile_batch(st, beam_width)
  ELSE [kind |-> st.kind, state |-> st.state, multiplier |-> 1]

NoDecoderState == [kind |-> "none", state |-> <<>>, multiplier |-> 0]

\* one encoder pass followed by the decoder cell of the same pass
DecoderCellInputs ==
  [pass : Passes, encoder_type : EncoderTypes,
   num_encoder_layers : 1..MaxEncoderLayers,
   num_decoder_layers : 1..MaxEncoderLayers,
   attention : BOOLEAN, beam_width : BeamWidths,
   attrs : {AttrsBeforeGraph, AttrsBeforeGraph \cup {"embedding_encoder"}}]

InitDecoderCell ==
  /\ \E m \in Modes : Parked(m)
  /\ sched = Idle
  /\ decoding = Idle
  /\ recon = Idle
  /\ \E in \in DecoderCellInputs :
       encoding = [pc |-> "called", in |-> in, encoder_state |-> NoState,
                   decoder_initial_state |-> NoDecoderState,
                   error |-> NoError]

\* _build_decoder calls the hook with the encoder's final state
BuildDecoderCell ==
  /\ encoding.pc = "returned"
  /\ encoding' =
       IF build_decoder_cell("Model", encoding.in) = "ok"
       THEN [encoding EXCEPT
               !.pc = "decoder",
               !.decoder_initial_state =
                  decoder_initial_state(mode, encoding.in.beam_width,
                                        encoding.encoder_state)]
       ELSE [encoding EXCEPT
               !.pc = "raised",
               !.error = Raised("ValueError", "_build_decoder_cell")]
  /\ UNCHANGED <<main_vars, sched, decoding, recon>>

NextDecoderCell ==
  \/ EmbedSource
  \/ RunEncoder
  \/ BuildDecoderCell

SpecDecoderCell == InitDecoderCell /\ [][NextDecoderCell]_vars

====
